---- MODULE Spec2Model ----
(***************************************************************************)
(* A model of go-ctypes (package ctypes, the revision with ValueOf /       *)
(* NewEncoder / NewDecoder bound to a Value): the type resolver            *)
(* gotype_to_ctype, the Value buffer with its cursor and pool of owned     *)
(* C strings, the encode and decode engines with their kind-indexed        *)
(* operation tables, and the Encoder / Decoder facades.                    *)
(*                                                                         *)
(* Memory is modelled at the byte level (amd64, little endian): a Go value *)
(* of a fixed-width kind is the sequence of its native bytes, the Value    *)
(* buffer is a sequence of bytes, and the encode/decode operations copy    *)
(* bytes between them at the cursor.                                       *)
(***************************************************************************)
EXTENDS Integers, Sequences, FiniteSets, TLC

(***************************************************************************)
(* Bounds of the model.                                                    *)
(***************************************************************************)
\* length of the fixed arrays of the type universe
ArrLen == 2
\* deepest chain of pointers wrapped around an operand
MaxPtrDepth == 1

(***************************************************************************)
(* reflect.Kind numbers (the order of reflect's Kind enumeration), which   *)
(* index enc_op_table and dec_op_table.                                    *)
(***************************************************************************)
Invalid == 0
Bool == 1
IntKind == 2
Int8 == 3
Int16 == 4
Int32 == 5
Int64 == 6
Uint == 7
Uint8 == 8
Uint16 == 9
Uint32 == 10
Uint64 == 11
Uintptr == 12
Float32 == 13
Float64 == 14
Complex64 == 15
Complex128 == 16
Array == 17
Chan == 18
Func == 19
Interface == 20
Map == 21
Ptr == 22
Slice == 23
String == 24
Struct == 25
UnsafePointer == 26

(***************************************************************************)
(* Native widths (unsafe.Sizeof) on amd64.                                 *)
(***************************************************************************)
sz_bool == 1
sz_int == 8
sz_int8 == 1
sz_int16 == 2
sz_int32 == 4
sz_int64 == 8
sz_uint == 8
sz_uint8 == 1
sz_uint16 == 2
sz_uint32 == 4
sz_uint64 == 8
sz_uintptr == 8
sz_float32 == 4
sz_float64 == 8
sz_complex64 == 8
sz_complex128 == 16

(***************************************************************************)
(* The universe of Go types the operands are drawn from.  A type is named  *)
(* by a string (two reflect.Type are equal iff they are the same type);    *)
(* GoTypeInfo gives what reflect reports of it: Kind(), Elem(), Len() and  *)
(* the fields (name, type) in declaration order.                           *)
(***************************************************************************)
TInfo(k, e, n, fs) == [kind |-> k, elem |-> e, len |-> n, fields |-> fs]

PrimTypes ==
    {"bool", "int", "int8", "int16", "int32", "int64",
     "uint", "uint8", "uint16", "uint32", "uint64", "uintptr",
     "float32", "float64", "complex64", "complex128", "unsafe.Pointer"}

PrimKind(t) ==
    CASE t = "bool" -> Bool
      [] t = "int" -> IntKind
      [] t = "int8" -> Int8
      [] t = "int16" -> Int16
      [] t = "int32" -> Int32
      [] t = "int64" -> Int64
      [] t = "uint" -> Uint
      [] t = "uint8" -> Uint8
      [] t = "uint16" -> Uint16
      [] t = "uint32" -> Uint32
      [] t = "uint64" -> Uint64
      [] t = "uintptr" -> Uintptr
      [] t = "float32" -> Float32
      [] t = "float64" -> Float64
      [] t = "complex64" -> Complex64
      [] t = "complex128" -> Complex128
      [] t = "unsafe.Pointer" -> UnsafePointer

\* types whose kind the resolver does not handle
BadKindTypes == {"chan int", "func()", "interface{}", "map[int]int"}

ArrayTypes == {"[N]int16", "[N]string", "[N]Inner", "[N]chan int"}

StructTypes ==
    {"floatcomplex", "doublecomplex", "Inner", "T1", "Mixed",
     "Blank2", "Blank3", "WithChan", "Deep", "PtrChan"}

GoTypes ==
    PrimTypes \cup BadKindTypes \cup ArrayTypes \cup StructTypes
    \cup {"string", "[]float64", "*int64", "*chan int"}

\* the type *ty, and the type a pointer type t points to
PtrTo(ty) == "*" \o ty
PtrElem(t) == CHOOSE u \in GoTypes \cup {PtrTo(v) : v \in GoTypes} : PtrTo(u) = t

GoTypeInfo(t) ==
    CASE t \in PrimTypes -> TInfo(PrimKind(t), "", 0, <<>>)
      [] t = "chan int" -> TInfo(Chan, "int", 0, <<>>)
      [] t = "func()" -> TInfo(Func, "", 0, <<>>)
      [] t = "interface{}" -> TInfo(Interface, "", 0, <<>>)
      [] t = "map[int]int" -> TInfo(Map, "int", 0, <<>>)
      [] t = "string" -> TInfo(String, "", 0, <<>>)
      [] t = "[]float64" -> TInfo(Slice, "float64", 0, <<>>)
      [] t = "*int64" -> TInfo(Ptr, "int64", 0, <<>>)
      [] t = "*chan int" -> TInfo(Ptr, "chan int", 0, <<>>)
      [] t = "[N]int16" -> TInfo(Array, "int16", ArrLen, <<>>)
      [] t = "[N]string" -> TInfo(Array, "string", ArrLen, <<>>)
      [] t = "[N]Inner" -> TInfo(Array, "Inner", ArrLen, <<>>)
      [] t = "[N]chan int" -> TInfo(Array, "chan int", ArrLen, <<>>)
      [] t = "floatcomplex" ->
            TInfo(Struct, "", 0, << <<"real", "float32">>, <<"imag", "float32">> >>)
      [] t = "doublecomplex" ->
            TInfo(Struct, "", 0, << <<"real", "float64">>, <<"imag", "float64">> >>)
      [] t = "Inner" ->
            TInfo(Struct, "", 0, << <<"x", "int16">>, <<"s", "string">> >>)
      [] t = "T1" ->
            TInfo(Struct, "", 0,
                  << <<"i0", "int">>, <<"s0", "string">>, <<"f1", "float32">> >>)
      [] t = "Mixed" ->
            TInfo(Struct, "", 0,
                  << <<"i", "int32">>, <<"f", "float64">>, <<"a", "[N]int16">>,
                     <<"v", "[]float64">>, <<"s", "string">>, <<"p", "*int64">>,
                     <<"n", "Inner">> >>)
      [] t = "Blank2" ->
            TInfo(Struct, "", 0, << <<"_", "int16">>, <<"_", "int64">> >>)
      [] t = "Blank3" ->
            TInfo(Struct, "", 0, << <<"_", "int32">>, <<"_", "int32">> >>)
      [] t = "WithChan" ->
            TInfo(Struct, "", 0, << <<"i", "int32">>, <<"c", "chan int">> >>)
      [] t = "Deep" ->
            TInfo(Struct, "", 0, << <<"x", "int16">>, <<"n", "WithChan">> >>)
      [] t = "PtrChan" ->
            TInfo(Struct, "", 0, << <<"p", "*chan int">> >>)
      [] OTHER -> TInfo(Ptr, PtrElem(t), 0, <<>>)

GoKind(t) == GoTypeInfo(t).kind
GoElem(t) == GoTypeInfo(t).elem
GoLen(t) == GoTypeInfo(t).len
GoNumField(t) == Len(GoTypeInfo(t).fields)
GoFieldName(t, i) == GoTypeInfo(t).fields[i][1]
GoFieldType(t, i) == GoTypeInfo(t).fields[i][2]

Max(a, b) == IF a >= b THEN a ELSE b
Min(a, b) == IF a <= b THEN a ELSE b
AlignUp(n, a) == ((n + a - 1) \div a) * a

(***************************************************************************)
(* reflect.Type.Size() and Align(): the native Go layout, fields aligned   *)
(* and padded.                                                             *)
(***************************************************************************)
RECURSIVE GoAlign(_)
RECURSIVE GoStructAlign(_, _)
GoStructAlign(t, i) ==
    IF i = 0 THEN 1 ELSE Max(GoStructAlign(t, i - 1), GoAlign(GoFieldType(t, i)))

GoAlign(t) ==
    LET k == GoKind(t) IN
    CASE k \in {Bool, Int8, Uint8} -> 1
      [] k \in {Int16, Uint16} -> 2
      [] k \in {Int32, Uint32, Float32, Complex64} -> 4
      [] k = Array -> GoAlign(GoElem(t))
      [] k = Struct -> GoStructAlign(t, GoNumField(t))
      [] OTHER -> 8

RECURSIVE GoSize(_)
RECURSIVE GoStructEnd(_, _)
\* the offset of the end of field i of struct t (0 for i = 0)
GoStructEnd(t, i) ==
    IF i = 0 THEN 0
    ELSE AlignUp(GoStructEnd(t, i - 1), GoAlign(GoFieldType(t, i)))
         + GoSize(GoFieldType(t, i))

GoSize(t) ==
    LET k == GoKind(t) IN
    CASE k = Bool -> sz_bool
      [] k = IntKind -> sz_int
      [] k = Int8 -> sz_int8
      [] k = Int16 -> sz_int16
      [] k = Int32 -> sz_int32
      [] k = Int64 -> sz_int64
      [] k = Uint -> sz_uint
      [] k = Uint8 -> sz_uint8
      [] k = Uint16 -> sz_uint16
      [] k = Uint32 -> sz_uint32
      [] k = Uint64 -> sz_uint64
      [] k = Uintptr -> sz_uintptr
      [] k = Float32 -> sz_float32
      [] k = Float64 -> sz_float64
      [] k = Complex64 -> sz_complex64
      [] k = Complex128 -> sz_complex128
      [] k = Array -> GoLen(t) * GoSize(GoElem(t))
      [] k = Slice -> sz_uintptr + sz_int + sz_int
      [] k = String -> sz_uintptr + sz_int
      [] k = Interface -> sz_uintptr + sz_uintptr
      [] k = Struct -> AlignUp(GoStructEnd(t, GoNumField(t)), GoAlign(t))
      [] OTHER -> sz_uintptr

(***************************************************************************)
(* The type resolver.  A descriptor (ctypes.Type) is the implementing      *)
(* struct with the reflect.Type it wraps; NoType is the outcome of the     *)
(* resolver's panic("not handled type").                                   *)
(***************************************************************************)
CType(impl, t) == [impl |-> impl, gotype |-> t]
NoType == CType("panic", "")
\* the nil Type
NilType == CType("nil", "")
g_complex64 == "floatcomplex"
g_complex128 == "doublecomplex"

\* the keys of the map new_cstruct fills: the distinct field names
FieldNames(t) == {GoFieldName(t, i) : i \in 1..GoNumField(t)}
\* c.fields[f.Name] = ... in a loop: the last field of a name is the one kept
LastFieldNamed(t, n) ==
    CHOOSE i \in 1..GoNumField(t) :
        /\ GoFieldName(t, i) = n
        /\ \A j \in 1..GoNumField(t) : GoFieldName(t, j) = n => j <= i

RECURSIVE gotype_to_ctype(_)
RECURSIVE new_cstruct(_)
new_cstruct(t) ==
    IF \E i \in 1..GoNumField(t) : gotype_to_ctype(GoFieldType(t, i)) = NoType
    THEN NoType
    ELSE CType("cstruct_type", t)

\* a resolver without the default case: a type of a kind it has no case for
\* is wrapped as it is
gotype_to_ctype_lax(t) ==
    LET k == GoKind(t) IN
    CASE k = Complex64 -> new_cstruct(g_complex64)
      [] k = Complex128 -> new_cstruct(g_complex128)
      [] k = Slice -> CType("vlarray_type", t)
      [] k = String -> CType("cstring_type", t)
      [] k = Struct -> new_cstruct(t)
      [] OTHER -> CType("common_type", t)

gotype_to_ctype(t) ==
    LET k == GoKind(t) IN
    CASE k \in {Bool, IntKind, Int8, Int16, Int32, Int64,
                Uint, Uint8, Uint16, Uint32, Uint64, Uintptr,
                Float32, Float64} -> CType("common_type", t)
      [] k = Complex64 -> new_cstruct(g_complex64)
      [] k = Complex128 -> new_cstruct(g_complex128)
      [] k = Ptr -> CType("common_type", t)
      [] k = Array -> CType("common_type", t)
      [] k = Slice -> CType("vlarray_type", t)
      [] k = String -> CType("cstring_type", t)
      [] k = Struct -> new_cstruct(t)
      [] k = UnsafePointer -> CType("common_type", t)
      [] OTHER -> NoType

\* cstruct_type.fields: name -> descriptor of the (last) field of that name
cstruct_fields(t) ==
    [n \in FieldNames(t) |-> gotype_to_ctype(GoFieldType(t, LastFieldNamed(t, n)))]

GoType(ct) == ct.gotype

RECURSIVE SumOver(_, _)
SumOver(S, f) ==
    IF S = {} THEN 0
    ELSE LET x == CHOOSE y \in S : TRUE IN f[x] + SumOver(S \ {x}, f)

RECURSIVE Size(_)
vlarray_Size == sz_uintptr + sz_int
cstring_Size == sz_uintptr
cstruct_Size(ct) ==
    LET fields == cstruct_fields(ct.gotype) IN
    SumOver(DOMAIN fields, [n \in DOMAIN fields |-> Size(fields[n])])

Size(ct) ==
    CASE ct.impl = "vlarray_type" -> vlarray_Size
      [] ct.impl = "cstring_type" -> cstring_Size
      [] ct.impl = "cstruct_type" -> cstruct_Size(ct)
      [] OTHER -> GoSize(ct.gotype)

(***************************************************************************)
(* Bytes and addresses.                                                    *)
(***************************************************************************)
Byte == 0..255
Zeros(w) == [j \in 1..w |-> 0]

RECURSIVE Pow256(_)
Pow256(j) == IF j = 0 THEN 1 ELSE 256 * Pow256(j - 1)
\* the w native (little-endian) bytes of the number n < 2^24
LE(n, w) == [j \in 1..w |-> IF j <= 3 THEN (n \div Pow256(j - 1)) % 256 ELSE 0]

(***************************************************************************)
(* Go values, as the memory reflect gives access to.  A value of a         *)
(* fixed-width kind (numbers, bool, complex, pointers, and the one-word    *)
(* reference kinds) is the sequence of its native bytes; a string is its   *)
(* header (Data, Len) with the characters Data points to; a slice is its   *)
(* header (Data, Len, Cap); an array is the sequence of its elements and a *)
(* struct the sequence of its fields.                                      *)
(***************************************************************************)
FixedKinds ==
    {Bool, IntKind, Int8, Int16, Int32, Int64, Uint, Uint8, Uint16, Uint32,
     Uint64, Uintptr, Float32, Float64, Complex64, Complex128, Ptr,
     UnsafePointer, Chan, Func, Map}

StringValue(data, chars) ==
    [Data |-> LE(data, sz_uintptr), Len |-> LE(Len(chars), sz_int), chars |-> chars]
SliceValue(data, n, cap) ==
    [Data |-> LE(data, sz_uintptr), Len |-> LE(n, sz_int), Cap |-> LE(cap, sz_int)]

\* "32 - 42" and "foo - bar"
Str1 == <<51, 50, 32, 45, 32, 52, 50>>
Str2 == <<102, 111, 111, 32, 45, 32, 98, 97, 114>>
\* where the operands' strings, slices and pointees live in Go memory
GoData(k) == 16 * k + 4096
\* the int64 variables the operands' pointers point to
GoPointees == {GoData(5), GoData(6)}

SampleIds == {0, 1, 2}

\* Three values of every type: the zero value and two others.
RECURSIVE Sample(_, _)
Sample(t, k) ==
    LET kind == GoKind(t) IN
    CASE kind = Bool -> <<IF k = 0 THEN 0 ELSE 1>>
      [] kind \in {Ptr, UnsafePointer, Chan, Func, Map} ->
            IF k = 0 THEN Zeros(sz_uintptr) ELSE LE(GoData(4 + k), sz_uintptr)
      [] kind \in FixedKinds \ {Bool, Ptr, UnsafePointer, Chan, Func, Map} ->
            [j \in 1..GoSize(t) |-> IF k = 0 THEN 0 ELSE IF k = 1 THEN j ELSE 256 - j]
      [] kind = Interface -> Zeros(GoSize(t))
      [] kind = String ->
            IF k = 0 THEN StringValue(0, <<>>)
            ELSE IF k = 1 THEN StringValue(GoData(1), Str1)
            ELSE StringValue(GoData(2), Str2)
      [] kind = Slice ->
            IF k = 0 THEN SliceValue(0, 0, 0)
            ELSE IF k = 1 THEN SliceValue(GoData(3), 3, 3)
            ELSE SliceValue(GoData(4), 1, 4)
      [] kind = Array ->
            [i \in 1..GoLen(t) |->
                Sample(GoElem(t), IF k = 0 THEN 0 ELSE 1 + ((k + i) % 2))]
      [] kind = Struct ->
            [i \in 1..GoNumField(t) |-> Sample(GoFieldType(t, i), k)]

Zero(t) == Sample(t, 0)

(***************************************************************************)
(* The Value under construction by an engine pass:                         *)
(*   b         the byte buffer                                             *)
(*   idx       the cursor                                                  *)
(*   cstrings  offset -> address of the C string owned for that offset     *)
(*   heap      the C heap: address of a live C.CString block -> its bytes  *)
(*   dfree     whether C.free was handed a block that is not live          *)
(*   mem       Go memory: address of a pointee variable -> its bytes       *)
(*   oob       whether bytes outside b were read or written                *)
(*   fault     "" or the panic that ended the pass                         *)
(***************************************************************************)
NoFault == ""
Panic(cv, why) == [cv EXCEPT !.fault = why]

\* C.CString: malloc gives a block no live block occupies
CHeap(k) == 16 * k + 64
Malloc(heap) ==
    CHeap(CHOOSE k \in 0..Cardinality(DOMAIN heap) :
            /\ CHeap(k) \notin DOMAIN heap
            /\ \A j \in 0..(k - 1) : CHeap(j) \in DOMAIN heap)
CString(chars) == chars \o <<0>>

\* The w bytes a uintptr-typed read at the start of a C block sees; the
\* bytes past the block's end are whatever the C heap holds there (g).
ReadBlock(block, w, g) ==
    SubSeq(block, 1, Min(w, Len(block))) \o [j \in 1..(w - Len(block)) |-> g]

\* *dst = *src for dst := &v.b[v.idx] of a kind w bytes wide; v.idx += w.
\* Indexing v.b[v.idx] is bounds-checked; the store through the unsafe
\* pointer is not.
CopyIn(cv, src, w) ==
    IF cv.fault # NoFault THEN cv
    ELSE IF cv.idx >= Len(cv.b) THEN Panic(cv, "index out of range")
    ELSE LET n == Min(w, Len(cv.b) - cv.idx)   \* the bytes that land in v.b
         IN [cv EXCEPT
                !.b = SubSeq(cv.b, 1, cv.idx) \o SubSeq(src, 1, n)
                      \o SubSeq(cv.b, cv.idx + n + 1, Len(cv.b)),
                !.oob = cv.oob \/ (cv.idx + w > Len(cv.b)),
                !.idx = cv.idx + w]

encode_noop(cv, src) == IF cv.fault # NoFault THEN cv ELSE Panic(cv, "noop!")
encode_bool(cv, src) == CopyIn(cv, src, sz_bool)
encode_int(cv, src) == CopyIn(cv, src, sz_int)
encode_int8(cv, src) == CopyIn(cv, src, sz_int8)
encode_int16(cv, src) == CopyIn(cv, src, sz_int16)
encode_int32(cv, src) == CopyIn(cv, src, sz_int32)
encode_int64(cv, src) == CopyIn(cv, src, sz_int64)
encode_uint(cv, src) == CopyIn(cv, src, sz_uint)
encode_uint8(cv, src) == CopyIn(cv, src, sz_uint8)
encode_uint16(cv, src) == CopyIn(cv, src, sz_uint16)
encode_uint32(cv, src) == CopyIn(cv, src, sz_uint32)
encode_uint64(cv, src) == CopyIn(cv, src, sz_uint64)
encode_uintptr(cv, src) == CopyIn(cv, src, sz_uintptr)
encode_float32(cv, src) == CopyIn(cv, src, sz_float32)
encode_float64(cv, src) == CopyIn(cv, src, sz_float64)
encode_complex64(cv, src) == CopyIn(cv, src, sz_complex64)
encode_complex128(cv, src) == CopyIn(cv, src, sz_complex128)
encode_ptr(cv, src) == CopyIn(cv, src, sz_uintptr)

\* an encode_slice that follows the field order of the SliceHeader: Data, Len
encode_slice_data_first(cv, slice) ==
    encode_int(encode_ptr(cv, slice.Data), slice.Len)

\* slice is the SliceHeader at p
encode_slice(cv, slice) == encode_ptr(encode_int(cv, slice.Len), slice.Data)

\* an encode_string that does not record the C string in v.cstrings
encode_string_unowned(cv, s, g) ==
    IF cv.fault # NoFault THEN cv
    ELSE LET cstr == Malloc(cv.heap)
             block == CString(s.chars)
             leaked == [cv EXCEPT !.heap = (cstr :> block) @@ cv.heap]
         IN encode_ptr(leaked, ReadBlock(block, sz_uintptr, g))

\* s is the string at p; g is the byte the C heap holds past a block's end.
\* encode_ptr is handed cstr itself, so what it copies is the uintptr-wide
\* word stored AT cstr: the first bytes of the C string.
encode_string(cv, s, g) ==
    IF cv.fault # NoFault THEN cv
    ELSE LET cstr == Malloc(cv.heap)
             block == CString(s.chars)
             owned == [cv EXCEPT !.heap = (cstr :> block) @@ cv.heap,
                                 !.cstrings = (cv.idx :> cstr) @@ cv.cstrings]
         IN encode_ptr(owned, ReadBlock(block, sz_uintptr, g))

(***************************************************************************)
(* The encode engine.  An operation's argument p is either the address of  *)
(* the datum (form "addr": rv.UnsafeAddr(), arr.Index(i).UnsafeAddr()) or  *)
(* the address of a reflect.Value describing it (form "rvalue": &rv).  In  *)
(* both forms the record carries the datum: its type, its value, and       *)
(* whether reflect can take its address.  The oracle o fixes what          *)
(* undefined behaviour does in this pass: o.g is the byte found outside    *)
(* allocated blocks, o.ub what a call on a mistyped pointer does.          *)
(***************************************************************************)
RV(t, val, addressable) ==
    [form |-> "rvalue", t |-> t, val |-> val, addressable |-> addressable]
AddrOf(rv) == [rv EXCEPT !.form = "addr"]
Oracles == [g : {0, 170}, ub : {"fault", "return"}]

\* whether a value of type ty holds, at any depth, a datum of a kind in ks
RECURSIVE Holds(_, _)
Holds(ty, ks) ==
    LET k == GoKind(ty) IN
    \/ k \in ks
    \/ k = Array /\ GoLen(ty) > 0 /\ Holds(GoElem(ty), ks)
    \/ k = Struct /\ \E i \in 1..GoNumField(ty) : Holds(GoFieldType(ty, i), ks)
\* The oracles that make a difference to a pass over a value of type ty:
\* bytes outside blocks are only read through strings and when a struct's
\* fields outrun the buffer, mistyped calls only come from arrays.
OraclesFor(ty) ==
    {o \in Oracles :
        /\ o.ub = "fault" \/ Holds(ty, {Array})
        /\ o.g = 0 \/ Holds(ty, {String, Struct})}

\* a raw address used as a *reflect.Value
Mistyped(cv, o) ==
    IF cv.fault # NoFault THEN cv
    ELSE IF o.ub = "fault" THEN Panic(cv, "invalid memory address")
    ELSE cv

enc_op_table ==
    [k \in Invalid..Struct |->
        CASE k = Bool -> "encode_bool"
          [] k = IntKind -> "encode_int"
          [] k = Int8 -> "encode_int8"
          [] k = Int16 -> "encode_int16"
          [] k = Int32 -> "encode_int32"
          [] k = Int64 -> "encode_int64"
          [] k = Uint -> "encode_uint"
          [] k = Uint8 -> "encode_uint8"
          [] k = Uint16 -> "encode_uint16"
          [] k = Uint32 -> "encode_uint32"
          [] k = Uint64 -> "encode_uint64"
          [] k = Uintptr -> "encode_uintptr"
          [] k = Float32 -> "encode_float32"
          [] k = Float64 -> "encode_float64"
          [] k = Complex64 -> "encode_complex64"
          [] k = Complex128 -> "encode_complex128"
          [] k = Array -> "encode_array"
          [] k = Chan -> "encode_noop"
          [] k = Func -> "encode_noop"
          [] k = Interface -> "encode_noop"
          [] k = Map -> "encode_noop"
          [] k = Ptr -> "encode_ptr"
          [] k = Slice -> "encode_slice"
          [] k = String -> "encode_string"
          [] k = Struct -> "encode_struct"
          [] OTHER -> "nil"]

RECURSIVE encode_value(_, _, _)
RECURSIVE encode_struct_from(_, _, _, _)
RECURSIVE encode_array_from(_, _, _, _, _)
RECURSIVE enc_call(_, _, _, _)

\* an encode_struct that walks the fields from the last one to the first
RECURSIVE encode_struct_backwards(_, _, _, _)
encode_struct_backwards(cv, rv, i, o) ==
    IF cv.fault # NoFault \/ i > GoNumField(rv.t) THEN cv
    ELSE encode_struct_backwards(
            encode_value(cv, RV(GoFieldType(rv.t, GoNumField(rv.t) + 1 - i),
                                rv.val[GoNumField(rv.t) + 1 - i], rv.addressable), o),
            rv, i + 1, o)

\* the loop of encode_struct from field i on
encode_struct_from(cv, rv, i, o) ==
    IF cv.fault # NoFault \/ i > GoNumField(rv.t) THEN cv
    ELSE encode_struct_from(
            encode_value(cv, RV(GoFieldType(rv.t, i), rv.val[i], rv.addressable), o),
            rv, i + 1, o)

encode_struct(cv, p, o) ==
    IF cv.fault # NoFault THEN cv
    ELSE IF p.form # "rvalue" THEN Mistyped(cv, o)
    ELSE encode_struct_from(cv, p, 1, o)

\* the loop of encode_array from element i on
encode_array_from(cv, arr, op, i, o) ==
    IF cv.fault # NoFault \/ i > GoLen(arr.t) THEN cv
    ELSE IF ~arr.addressable THEN Panic(cv, "UnsafeAddr of unaddressable value")
    ELSE encode_array_from(
            enc_call(op, cv, AddrOf(RV(GoElem(arr.t), arr.val[i], TRUE)), o),
            arr, op, i + 1, o)

encode_array(cv, p, o) ==
    IF cv.fault # NoFault THEN cv
    ELSE IF p.form # "rvalue" THEN Mistyped(cv, o)
    ELSE IF GoKind(GoElem(p.t)) \notin DOMAIN enc_op_table
         THEN Panic(cv, "index out of range")
    ELSE encode_array_from(cv, p, enc_op_table[GoKind(GoElem(p.t))], 1, o)

\* op(v, p)
enc_call(op, cv, p, o) ==
    IF cv.fault # NoFault THEN cv
    ELSE CASE op = "encode_bool" -> encode_bool(cv, p.val)
           [] op = "encode_int" -> encode_int(cv, p.val)
           [] op = "encode_int8" -> encode_int8(cv, p.val)
           [] op = "encode_int16" -> encode_int16(cv, p.val)
           [] op = "encode_int32" -> encode_int32(cv, p.val)
           [] op = "encode_int64" -> encode_int64(cv, p.val)
           [] op = "encode_uint" -> encode_uint(cv, p.val)
           [] op = "encode_uint8" -> encode_uint8(cv, p.val)
           [] op = "encode_uint16" -> encode_uint16(cv, p.val)
           [] op = "encode_uint32" -> encode_uint32(cv, p.val)
           [] op = "encode_uint64" -> encode_uint64(cv, p.val)
           [] op = "encode_uintptr" -> encode_uintptr(cv, p.val)
           [] op = "encode_float32" -> encode_float32(cv, p.val)
           [] op = "encode_float64" -> encode_float64(cv, p.val)
           [] op = "encode_complex64" -> encode_complex64(cv, p.val)
           [] op = "encode_complex128" -> encode_complex128(cv, p.val)
           [] op = "encode_array" -> encode_array(cv, p, o)
           [] op = "encode_noop" -> encode_noop(cv, p.val)
           [] op = "encode_ptr" -> encode_ptr(cv, p.val)
           [] op = "encode_slice" -> encode_slice(cv, p.val)
           [] op = "encode_string" -> encode_string(cv, p.val, o.g)
           [] op = "encode_struct" -> encode_struct(cv, p, o)
           [] OTHER -> Panic(cv, "call of nil func")

encode_value(cv, rv, o) ==
    LET kind == GoKind(rv.t) IN
    IF cv.fault # NoFault THEN cv
    ELSE IF kind \notin DOMAIN enc_op_table THEN Panic(cv, "index out of range")
    ELSE IF kind \in {Array, Struct} THEN enc_call(enc_op_table[kind], cv, rv, o)
    ELSE IF ~rv.addressable THEN Panic(cv, "UnsafeAddr of unaddressable value")
    ELSE enc_call(enc_op_table[kind], cv, AddrOf(rv), o)

(***************************************************************************)
(* The decode engine.  An operation yields the Value after it and the new  *)
(* value of the datum p describes.  Form "pointee" is decode_value's       *)
(* argument for a pointer: rv.Pointer(), the address the pointer holds.    *)
(***************************************************************************)
Out(cv, val) == [cv |-> cv, val |-> val]
PointeeOf(rv) == [rv EXCEPT !.form = "pointee"]

\* *dst = *src for src := &v.b[v.idx] of a kind w bytes wide; v.idx += w.
\* The bytes read past the end of v.b are whatever the heap holds there (g).
CopyOut(cv, old, w, g) ==
    IF cv.fault # NoFault THEN Out(cv, old)
    ELSE IF cv.idx >= Len(cv.b) THEN Out(Panic(cv, "index out of range"), old)
    ELSE LET n == Min(w, Len(cv.b) - cv.idx)   \* the bytes that come from v.b
         IN Out([cv EXCEPT !.oob = cv.oob \/ (cv.idx + w > Len(cv.b)),
                           !.idx = cv.idx + w],
                SubSeq(cv.b, cv.idx + 1, cv.idx + n) \o [j \in 1..(w - n) |-> g])

decode_noop(cv, old, g) ==
    IF cv.fault # NoFault THEN Out(cv, old) ELSE Out(Panic(cv, "noop!"), old)
decode_bool(cv, old, g) == CopyOut(cv, old, sz_bool, g)
decode_int(cv, old, g) == CopyOut(cv, old, sz_int, g)
decode_int8(cv, old, g) == CopyOut(cv, old, sz_int8, g)
decode_int16(cv, old, g) == CopyOut(cv, old, sz_int16, g)
decode_int32(cv, old, g) == CopyOut(cv, old, sz_int32, g)
decode_int64(cv, old, g) == CopyOut(cv, old, sz_int64, g)
decode_uint(cv, old, g) == CopyOut(cv, old, sz_uint, g)
decode_uint8(cv, old, g) == CopyOut(cv, old, sz_uint8, g)
decode_uint16(cv, old, g) == CopyOut(cv, old, sz_uint16, g)
decode_uint32(cv, old, g) == CopyOut(cv, old, sz_uint32, g)
decode_uint64(cv, old, g) == CopyOut(cv, old, sz_uint64, g)
decode_uintptr(cv, old, g) == CopyOut(cv, old, sz_uintptr, g)
decode_float32(cv, old, g) == CopyOut(cv, old, sz_float32, g)
decode_float64(cv, old, g) == CopyOut(cv, old, sz_float64, g)
decode_complex64(cv, old, g) == CopyOut(cv, old, sz_complex64, g)
decode_complex128(cv, old, g) == CopyOut(cv, old, sz_complex128, g)

\* p is the address the uintptr is stored to: the address of a pointer
\* variable (form "addr") or, from decode_value, the address the pointer
\* variable holds (form "pointee"): then the store goes to the pointee, the
\* pointer variable keeps its value, and a nil pointer faults.
decode_ptr(cv, p, g) ==
    IF cv.fault # NoFault THEN Out(cv, p.val)
    ELSE IF cv.idx >= Len(cv.b) THEN Out(Panic(cv, "index out of range"), p.val)
    ELSE IF p.form # "pointee" THEN CopyOut(cv, p.val, sz_uintptr, g)
    ELSE IF p.val = Zeros(sz_uintptr)
         THEN Out(Panic(cv, "invalid memory address or nil pointer dereference"),
                  p.val)
    ELSE LET r == CopyOut(cv, p.val, sz_uintptr, g)
             a == CHOOSE x \in DOMAIN cv.mem : LE(x, sz_uintptr) = p.val
         IN Out([r.cv EXCEPT !.mem[a] = r.val], p.val)

\* slice is the SliceHeader at p: Len and Data are stored, Cap is not
decode_slice(cv, slice, g) ==
    LET n == decode_int(cv, slice.Len, g)
        d == CopyOut(n.cv, slice.Data, sz_uintptr, g)
    IN IF d.cv.fault # NoFault THEN Out(d.cv, [slice EXCEPT !.Len = n.val])
       ELSE Out(d.cv, [slice EXCEPT !.Len = n.val, !.Data = d.val])

\* C.GoString(p): a Go string holding a copy of the C string at p ("" for a
\* nil p), in memory the Go runtime allocates.  (p is never dangling: Reset
\* empties the map when it frees the blocks.)
RECURSIVE StrLen(_, _)
StrLen(block, n) ==
    IF n >= Len(block) \/ block[n + 1] = 0 THEN n ELSE StrLen(block, n + 1)
GoString(cv, cstr) ==
    IF cstr = 0 \/ cstr \notin DOMAIN cv.heap THEN StringValue(0, <<>>)
    ELSE LET chars == SubSeq(cv.heap[cstr], 1, StrLen(cv.heap[cstr], 0))
         IN IF chars = <<>> THEN StringValue(0, <<>>)
            ELSE StringValue(GoData(16 + cv.idx), chars)

\* v.cstrings[v.idx]: the nil cstring (0) when the map has no such key
decode_string(cv, old, g) ==
    IF cv.fault # NoFault THEN Out(cv, old)
    ELSE LET cstr == IF cv.idx \in DOMAIN cv.cstrings THEN cv.cstrings[cv.idx] ELSE 0
         IN Out([cv EXCEPT !.idx = cv.idx + sz_uintptr], GoString(cv, cstr))

dec_op_table ==
    [k \in Invalid..Struct |->
        CASE k = Bool -> "decode_bool"
          [] k = IntKind -> "decode_int"
          [] k = Int8 -> "decode_int8"
          [] k = Int16 -> "decode_int16"
          [] k = Int32 -> "decode_int32"
          [] k = Int64 -> "decode_int64"
          [] k = Uint -> "decode_uint"
          [] k = Uint8 -> "decode_uint8"
          [] k = Uint16 -> "decode_uint16"
          [] k = Uint32 -> "decode_uint32"
          [] k = Uint64 -> "decode_uint64"
          [] k = Uintptr -> "decode_uintptr"
          [] k = Float32 -> "decode_float32"
          [] k = Float64 -> "decode_float64"
          [] k = Complex64 -> "decode_complex64"
          [] k = Complex128 -> "decode_complex128"
          [] k = Array -> "decode_array"
          [] k = Chan -> "decode_noop"
          [] k = Func -> "decode_noop"
          [] k = Interface -> "decode_noop"
          [] k = Map -> "decode_noop"
          [] k = Ptr -> "decode_ptr"
          [] k = Slice -> "decode_slice"
          [] k = String -> "decode_string"
          [] k = Struct -> "decode_struct"
          [] OTHER -> "nil"]

RECURSIVE decode_value(_, _, _)
RECURSIVE decode_struct_from(_, _, _, _)
RECURSIVE decode_array_from(_, _, _, _, _)
RECURSIVE dec_call(_, _, _, _)

\* the loop of decode_struct from field i on
decode_struct_from(cv, rv, i, o) ==
    IF cv.fault # NoFault \/ i > GoNumField(rv.t) THEN Out(cv, rv.val)
    ELSE LET r == decode_value(
                    cv, RV(GoFieldType(rv.t, i), rv.val[i], rv.addressable), o)
         IN decode_struct_from(r.cv, [rv EXCEPT !.val[i] = r.val], i + 1, o)

decode_struct(cv, p, o) ==
    IF cv.fault # NoFault THEN Out(cv, p.val)
    ELSE IF p.form # "rvalue" THEN Out(Mistyped(cv, o), p.val)
    ELSE decode_struct_from(cv, p, 1, o)

\* the loop of decode_array from element i on
decode_array_from(cv, arr, op, i, o) ==
    IF cv.fault # NoFault \/ i > GoLen(arr.t) THEN Out(cv, arr.val)
    ELSE IF ~arr.addressable
         THEN Out(Panic(cv, "UnsafeAddr of unaddressable value"), arr.val)
    ELSE LET r == dec_call(op, cv, AddrOf(RV(GoElem(arr.t), arr.val[i], TRUE)), o)
         IN decode_array_from(r.cv, [arr EXCEPT !.val[i] = r.val], op, i + 1, o)

decode_array(cv, p, o) ==
    IF cv.fault # NoFault THEN Out(cv, p.val)
    ELSE IF p.form # "rvalue" THEN Out(Mistyped(cv, o), p.val)
    ELSE IF GoKind(GoElem(p.t)) \notin DOMAIN dec_op_table
         THEN Out(Panic(cv, "index out of range"), p.val)
    ELSE decode_array_from(cv, p, dec_op_table[GoKind(GoElem(p.t))], 1, o)

\* op(v, p)
dec_call(op, cv, p, o) ==
    IF cv.fault # NoFault THEN Out(cv, p.val)
    ELSE CASE op = "decode_bool" -> decode_bool(cv, p.val, o.g)
           [] op = "decode_int" -> decode_int(cv, p.val, o.g)
           [] op = "decode_int8" -> decode_int8(cv, p.val, o.g)
           [] op = "decode_int16" -> decode_int16(cv, p.val, o.g)
           [] op = "decode_int32" -> decode_int32(cv, p.val, o.g)
           [] op = "decode_int64" -> decode_int64(cv, p.val, o.g)
           [] op = "decode_uint" -> decode_uint(cv, p.val, o.g)
           [] op = "decode_uint8" -> decode_uint8(cv, p.val, o.g)
           [] op = "decode_uint16" -> decode_uint16(cv, p.val, o.g)
           [] op = "decode_uint32" -> decode_uint32(cv, p.val, o.g)
           [] op = "decode_uint64" -> decode_uint64(cv, p.val, o.g)
           [] op = "decode_uintptr" -> decode_uintptr(cv, p.val, o.g)
           [] op = "decode_float32" -> decode_float32(cv, p.val, o.g)
           [] op = "decode_float64" -> decode_float64(cv, p.val, o.g)
           [] op = "decode_complex64" -> decode_complex64(cv, p.val, o.g)
           [] op = "decode_complex128" -> decode_complex128(cv, p.val, o.g)
           [] op = "decode_array" -> decode_array(cv, p, o)
           [] op = "decode_noop" -> decode_noop(cv, p.val, o.g)
           [] op = "decode_ptr" -> decode_ptr(cv, p, o.g)
           [] op = "decode_slice" -> decode_slice(cv, p.val, o.g)
           [] op = "decode_string" -> decode_string(cv, p.val, o.g)
           [] op = "decode_struct" -> decode_struct(cv, p, o)
           [] OTHER -> Out(Panic(cv, "call of nil func"), p.val)

decode_value(cv, rv, o) ==
    LET kind == GoKind(rv.t) IN
    IF cv.fault # NoFault THEN Out(cv, rv.val)
    ELSE IF kind \notin DOMAIN dec_op_table
         THEN Out(Panic(cv, "index out of range"), rv.val)
    ELSE IF kind \in {Array, Struct} THEN dec_call(dec_op_table[kind], cv, rv, o)
    ELSE IF kind = Ptr THEN dec_call(dec_op_table[kind], cv, PointeeOf(rv), o)
    ELSE IF ~rv.addressable
         THEN Out(Panic(cv, "UnsafeAddr of unaddressable value"), rv.val)
    ELSE dec_call(dec_op_table[kind], cv, AddrOf(rv), o)

(***************************************************************************)
(* The program state: one Value, the Encoder and Decoder bound to it, the  *)
(* C heap and the Go memory its operands point into.                       *)
(***************************************************************************)
VARIABLES
    phase,      \* "none": no Value yet; "live"; "dead": finalized
    origin,     \* the (dereferenced) type of ValueOf's operand
    t,          \* Value.t, the descriptor
    b,          \* Value.b, the buffer
    idx,        \* Value.idx, the cursor
    cstrings,   \* Value.cstrings, offset -> owned C string
    heap,       \* the live blocks of the C heap
    dfree,      \* whether C.free was ever handed a block that is not live
    mem,        \* the Go variables the operands' pointers point to
    enc,        \* whether an Encoder is bound to the Value
    dec,        \* whether a Decoder is bound to the Value
    src,        \* the operand of the last Encode that returned, if the Value
                \* was not reset or freed since by the caller; else NoOperand
    dst,        \* the destination as the last call left it, if that call was
                \* a Decode that ran the engine; else <<>>
    call,       \* the last call of the API and its outcome
    pcs,        \* goroutine -> where it is in the call it is making on the
                \* shared Encoder and Value
    lock,       \* the mutex the goroutines guard their calls with: "off" when
                \* they use none, else "free" or its holder
    frame       \* follow_ptr's rv and where the call is, when follow_ptr is
                \* run statement by statement; else NoFrame

vars == <<phase, origin, t, b, idx, cstrings, heap, dfree, mem, enc, dec,
          src, dst, call, pcs, lock, frame>>

\* the Value as the engines see it
CV == [b |-> b, idx |-> idx, cstrings |-> cstrings, heap |-> heap,
       dfree |-> dfree, oob |-> FALSE, fault |-> NoFault, mem |-> mem]

(***************************************************************************)
(* Operands: a value of a non-pointer type behind ptrs levels of pointers. *)
(***************************************************************************)
BaseTypes == {x \in GoTypes : GoKind(x) # Ptr}
Operand(ty, ptrs, k) == [t |-> ty, ptrs |-> ptrs, k |-> k]
Operands == {Operand(ty, n, k) : ty \in BaseTypes, n \in 0..MaxPtrDepth, k \in SampleIds}
NoOperand == Operand("", 0, 0)
\* the types of the operands handed to an Encoder or Decoder: the type its
\* Value was made for, and these
OtherTypes == {"int32", "complex64", "floatcomplex"}
OperandsFor(ty) ==
    {Operand(u, n, k) : u \in ({ty} \cap BaseTypes) \cup OtherTypes,
                        n \in 0..MaxPtrDepth, k \in SampleIds}
\* what TypeOf returns for the types of the universe
Descriptors == {gotype_to_ctype(ty) : ty \in GoTypes} \ {NoType}

\* reflect.Value of the operand: Kind() is Ptr while pointers remain; Elem()
\* of a pointer is addressable
RECURSIVE PtrType(_, _)
\* the type of a value of type ty behind n levels of pointers
PtrType(ty, n) == IF n = 0 THEN ty ELSE PtrTo(PtrType(ty, n - 1))

\* a follow_ptr that hands back the value it was given
follow_ptr_none(v) ==
    RV(PtrType(v.t, v.ptrs),
       IF v.ptrs > 0 THEN LE(GoData(7), sz_uintptr) ELSE v.val,
       v.addressable)

RECURSIVE follow_ptr(_)
follow_ptr(v) ==
    IF v.ptrs > 0 THEN follow_ptr([v EXCEPT !.ptrs = v.ptrs - 1, !.addressable = TRUE])
    ELSE RV(v.t, v.val, v.addressable)
ValueOfOperand(x) ==
    [t |-> x.t, ptrs |-> x.ptrs, val |-> Sample(x.t, x.k), addressable |-> FALSE]

\* The last call: the operation, the (dereferenced) type rt and sample k of
\* its operand, whether the operand was handed over through a pointer (ptr;
\* rt, k and ptr are logged only so far as the call looked at them), the
\* error and Value it returned, the panic that ended it, whether it touched
\* bytes outside the buffer, and how many C strings the Value owned before it.
Call(op, rt, k, ptr, err, ret, fault, oob, nfreed) ==
    [op |-> op, rt |-> rt, k |-> k, ptr |-> ptr, err |-> err, ret |-> ret,
     fault |-> fault, oob |-> oob, nfreed |-> nfreed]

Range(f) == {f[x] : x \in DOMAIN f}
EmptyMap == <<>>

(***************************************************************************)
(* Value.Reset                                                             *)
(***************************************************************************)
\* a Reset that frees the C strings and rewinds the cursor, but leaves the
\* bytes of the buffer as they are
Reset_keeps_bytes(cv) ==
    [cv EXCEPT
        !.idx = 0,
        !.heap = [a \in DOMAIN cv.heap \ Range(cv.cstrings) |-> cv.heap[a]],
        !.cstrings = EmptyMap]

\* a Reset that frees the C strings but keeps their entries in the map
Reset_keeps_map(cv) ==
    [cv EXCEPT
        !.idx = 0,
        !.dfree = cv.dfree
                  \/ \E i \in DOMAIN cv.cstrings : cv.cstrings[i] \notin DOMAIN cv.heap,
        !.heap = [a \in DOMAIN cv.heap \ Range(cv.cstrings) |-> cv.heap[a]],
        !.b = [n \in 1..Len(cv.b) |-> 0]]

Reset(cv) ==
    [cv EXCEPT
        !.idx = 0,
        !.dfree = cv.dfree
                  \/ \E i \in DOMAIN cv.cstrings : cv.cstrings[i] \notin DOMAIN cv.heap
                  \/ \E j, k \in DOMAIN cv.cstrings :
                        j # k /\ cv.cstrings[j] = cv.cstrings[k],
        !.heap = [a \in DOMAIN cv.heap \ Range(cv.cstrings) |-> cv.heap[a]],
        !.cstrings = EmptyMap,
        !.b = [n \in 1..Len(cv.b) |-> 0]]

\* the state after an engine pass left the Value as cv
Store(cv) ==
    /\ b' = cv.b
    /\ idx' = cv.idx
    /\ cstrings' = cv.cstrings
    /\ heap' = cv.heap
    /\ dfree' = cv.dfree
    /\ mem' = cv.mem

\* the goroutines that share the Value, and a goroutine between calls, n
\* calls made
Threads == {"g1", "g2"}
Idle(n) == [pc |-> "idle", op |-> "", seen |-> {}, fld |-> 0, calls |-> n]
\* follow_ptr is not being stepped through
NoFrame == [pc |-> "none"]

Init ==
    /\ phase = "none"
    /\ origin = ""
    /\ t = NoType
    /\ b = <<>>
    /\ idx = 0
    /\ cstrings = EmptyMap
    /\ heap = EmptyMap
    /\ dfree = FALSE
    /\ mem = [a \in GoPointees |-> LE(a % 256, sz_int64)]
    /\ enc = FALSE
    /\ dec = FALSE
    /\ src = NoOperand
    /\ dst = <<>>
    /\ call = Call("none", "", 0, FALSE, "nil", "nil", NoFault, FALSE, 0)
    /\ pcs = [th \in Threads |-> Idle(0)]
    /\ lock = "off"
    /\ frame = NoFrame

\* a New that sizes the buffer by the Go type's own size
New_native_size(ct) ==
    IF ct = NilType
    THEN UNCHANGED <<phase, t, b, idx, cstrings>>
    ELSE /\ phase' = "live"
         /\ t' = ct
         /\ b' = [i \in 1..GoSize(GoType(ct)) |-> 0]
         /\ idx' = 0
         /\ cstrings' = EmptyMap

\* New(t): the Value of a descriptor; panic("ctypes: New(nil)") makes none
New(ct) ==
    IF ct = NilType
    THEN UNCHANGED <<phase, t, b, idx, cstrings>>
    ELSE /\ phase' = "live"
         /\ t' = ct
         /\ b' = [i \in 1..Size(ct) |-> 0]
         /\ idx' = 0
         /\ cstrings' = EmptyMap

\* New(t) called by the client, with a descriptor TypeOf gave or with nil
NewOf(ct) ==
    /\ origin' = GoType(ct)
    /\ call' = IF ct = NilType
               THEN Call("New", GoType(ct), 0, FALSE, "panic", "nil",
                         "ctypes: New(nil)", FALSE, 0)
               ELSE Call("New", GoType(ct), 0, FALSE, "nil", "v", NoFault, FALSE, 0)
    /\ New(ct)
    /\ UNCHANGED <<heap, dfree, mem, enc, dec, src, dst>>
    /\ UNCHANGED <<pcs, lock, frame>>

\* ValueOf(v) for the operand x
ValueOf(x) ==
    /\ \E rv \in {follow_ptr(ValueOfOperand(x))} :
       \E ct \in {gotype_to_ctype(rv.t)} :
          /\ origin' = rv.t
          /\ IF ct = NoType
             THEN /\ call' = Call("ValueOf", x.t, 0, x.ptrs > 0, "panic", "nil",
                                  "not handled type", FALSE, 0)
                  /\ UNCHANGED <<phase, t, b, idx, cstrings>>
             ELSE /\ call' = Call("ValueOf", x.t, 0, x.ptrs > 0, "nil", "v",
                                  NoFault, FALSE, 0)
                  /\ New(ct)
    /\ UNCHANGED <<heap, dfree, mem, enc, dec, src, dst>>
    /\ UNCHANGED <<pcs, lock, frame>>

NewEncoder ==
    /\ phase = "live"
    /\ ~enc
    /\ enc' = TRUE
    /\ call' = Call("NewEncoder", "", 0, FALSE, "nil", "v", NoFault, FALSE, 0)
    /\ dst' = <<>>
    /\ UNCHANGED <<phase, origin, t, b, idx, cstrings, heap, dfree, mem, dec, src>>
    /\ UNCHANGED <<pcs, lock, frame>>

NewDecoder ==
    /\ phase = "live"
    /\ ~dec
    /\ dec' = TRUE
    /\ idx' = 0
    /\ call' = Call("NewDecoder", "", 0, FALSE, "nil", "v", NoFault, FALSE, 0)
    /\ dst' = <<>>
    /\ UNCHANGED <<phase, origin, t, b, cstrings, heap, dfree, mem, enc, src>>
    /\ UNCHANGED <<pcs, lock, frame>>

\* an Encode that resets the Value before it looks at the operand's type
Encode_resets_first(x) ==
    /\ \E rv \in {follow_ptr(ValueOfOperand(x))} :
        IF rv.t # GoType(t)
        THEN /\ call' = Call("Encode", rv.t, 0, FALSE, "TypeMismatch", "nil",
                             NoFault, FALSE, 0)
             /\ \E cv \in {Reset(CV)} : Store(cv)
             /\ src' = NoOperand
        ELSE \E o \in OraclesFor(rv.t) :
             \E cv \in {encode_value(Reset(CV), rv, o)} :
                /\ Store(cv)
                /\ call' = Call("Encode", rv.t, x.k, rv.addressable,
                                IF cv.fault = NoFault THEN "nil" ELSE "panic",
                                IF cv.fault = NoFault THEN "v" ELSE "nil",
                                cv.fault, cv.oob, Cardinality(Range(cstrings)))
                /\ src' = IF cv.fault = NoFault THEN Operand(rv.t, 0, x.k)
                          ELSE NoOperand
    /\ dst' = <<>>
    /\ UNCHANGED <<phase, origin, t, enc, dec>>
    /\ UNCHANGED <<pcs, lock, frame>>

\* an Encode that runs the engine on the Value as the previous call left it
Encode_without_reset(x) ==
    /\ \E rv \in {follow_ptr(ValueOfOperand(x))} :
        IF rv.t # GoType(t)
        THEN /\ call' = Call("Encode", rv.t, 0, FALSE, "TypeMismatch", "nil",
                             NoFault, FALSE, 0)
             /\ UNCHANGED <<b, idx, cstrings, heap, dfree, mem, src>>
        ELSE \E o \in OraclesFor(rv.t) :
             \E cv \in {encode_value(CV, rv, o)} :
                /\ Store(cv)
                /\ call' = Call("Encode", rv.t, x.k, rv.addressable,
                                IF cv.fault = NoFault THEN "nil" ELSE "panic",
                                IF cv.fault = NoFault THEN "v" ELSE "nil",
                                cv.fault, cv.oob, Cardinality(Range(cstrings)))
                /\ src' = IF cv.fault = NoFault THEN Operand(rv.t, 0, x.k)
                          ELSE NoOperand
    /\ dst' = <<>>
    /\ UNCHANGED <<phase, origin, t, enc, dec>>
    /\ UNCHANGED <<pcs, lock, frame>>

\* ctype_encoder.Encode(v) for the operand x
Encode(x) ==
    /\ \E rv \in {follow_ptr(ValueOfOperand(x))} :
        IF rv.t # GoType(t)
        THEN /\ call' = Call("Encode", rv.t, 0, FALSE, "TypeMismatch", "nil", NoFault,
                             FALSE, 0)
             /\ UNCHANGED <<b, idx, cstrings, heap, dfree, mem, src>>
        ELSE \E o \in OraclesFor(rv.t) :
             \E cv \in {encode_value(Reset(CV), rv, o)} :
                /\ Store(cv)
                /\ IF cv.fault = NoFault
                   THEN /\ call' = Call("Encode", rv.t, x.k, rv.addressable, "nil", "v",
                                        NoFault,
                                        cv.oob, Cardinality(Range(cstrings)))
                        /\ src' = Operand(rv.t, 0, x.k)
                   ELSE /\ call' = Call("Encode", rv.t, x.k, rv.addressable, "panic", "nil",
                                        cv.fault, cv.oob,
                                        Cardinality(Range(cstrings)))
                        /\ src' = NoOperand
    /\ dst' = <<>>
    /\ UNCHANGED <<phase, origin, t, enc, dec>>
    /\ UNCHANGED <<pcs, lock, frame>>

\* a Decode that resets the Value before it looks at the destination's type
Decode_resets_first(x) ==
    /\ \E rv \in {follow_ptr(ValueOfOperand(x))} :
        IF rv.t # GoType(t)
        THEN /\ call' = Call("Decode", rv.t, 0, FALSE, "TypeMismatch", "nil", NoFault,
                             FALSE, 0)
             /\ dst' = <<>>
             /\ \E cv \in {Reset(CV)} : Store(cv)
        ELSE \E o \in OraclesFor(rv.t) :
             \E r \in {decode_value(Reset(CV), rv, o)} :
                /\ Store(r.cv)
                /\ dst' = r.val
                /\ call' = Call("Decode", rv.t, x.k, rv.addressable,
                                IF r.cv.fault = NoFault THEN "nil" ELSE "panic",
                                IF r.cv.fault = NoFault THEN "v" ELSE "nil",
                                r.cv.fault, r.cv.oob, Cardinality(Range(cstrings)))
    /\ UNCHANGED <<phase, origin, t, enc, dec, src>>
    /\ UNCHANGED <<pcs, lock, frame>>

\* ctype_decoder.Decode(v) for the destination x
Decode(x) ==
    /\ \E rv \in {follow_ptr(ValueOfOperand(x))} :
        IF rv.t # GoType(t)
        THEN /\ call' = Call("Decode", rv.t, 0, FALSE, "TypeMismatch", "nil", NoFault,
                             FALSE, 0)
             /\ dst' = <<>>
             /\ UNCHANGED <<b, idx, cstrings, heap, dfree, mem>>
        ELSE \E o \in OraclesFor(rv.t) :
             \E r \in {decode_value(Reset(CV), rv, o)} :
                /\ Store(r.cv)
                /\ dst' = r.val
                /\ call' = Call("Decode", rv.t, x.k, rv.addressable,
                                IF r.cv.fault = NoFault THEN "nil" ELSE "panic",
                                IF r.cv.fault = NoFault THEN "v" ELSE "nil",
                                r.cv.fault, r.cv.oob, Cardinality(Range(cstrings)))
    /\ UNCHANGED <<phase, origin, t, enc, dec, src>>
    /\ UNCHANGED <<pcs, lock, frame>>

\* c_value.Reset()
ResetCall ==
    /\ phase = "live"
    /\ \E cv \in {Reset(CV)} : Store(cv)
    /\ src' = NoOperand
    /\ call' = Call("Reset", "", 0, FALSE, "nil", "nil", NoFault, FALSE,
                    Cardinality(Range(cstrings)))
    /\ dst' = <<>>
    /\ UNCHANGED <<phase, origin, t, enc, dec>>
    /\ UNCHANGED <<pcs, lock, frame>>

\* the finalizer New registered: (*Value).Reset, run once the Value is
\* unreachable
Finalize ==
    /\ phase = "live"
    /\ phase' = "dead"
    /\ \E cv \in {Reset(CV)} : Store(cv)
    /\ src' = NoOperand
    /\ call' = Call("Finalize", "", 0, FALSE, "nil", "nil", NoFault, FALSE,
                    Cardinality(Range(cstrings)))
    /\ dst' = <<>>
    /\ UNCHANGED <<origin, t, enc, dec>>
    /\ UNCHANGED <<pcs, lock, frame>>

\* c_value := ctypes.ValueOf(v)
ValueOfCall ==
    /\ phase = "none"
    /\ \E x \in Operands : ValueOf(x)

\* c_value := ctypes.New(ct)
NewCall ==
    /\ phase = "none"
    /\ \E ct \in Descriptors \cup {NilType} : NewOf(ct)

\* c_enc.Encode(v), on the Encoder bound to the Value
EncodeCall ==
    /\ phase = "live"
    /\ enc
    /\ \E x \in OperandsFor(origin) : Encode(x)

\* c_dec.Decode(v), on the Decoder bound to the Value
DecodeCall ==
    /\ phase = "live"
    /\ dec
    /\ \E x \in OperandsFor(origin) : Decode(x)

Next ==
    \/ ValueOfCall
    \/ NewCall
    \/ NewEncoder
    \/ NewDecoder
    \/ EncodeCall
    \/ DecodeCall
    \/ ResetCall
    \/ Finalize

Spec == Init /\ [][Next]_vars

(***************************************************************************)
(* Goroutines sharing one Encoder and its Value.  Each makes calls of      *)
(* Encode, with a value of its own of the Value's type, and of Reset; a    *)
(* call runs statement by statement (a field's encode_value is one step),  *)
(* and the steps of the goroutines interleave unless they guard their      *)
(* calls with a mutex.  A panic in any goroutine ends the program.         *)
(***************************************************************************)
\* the calls a goroutine makes
MaxCalls == 2
\* the type the shared Value was made for, and the value a goroutine encodes
RaceType == "Inner"
RaceSample(th) == IF th = "g1" THEN 1 ELSE 2
\* neither of these values has an array or a string shorter than a pointer
RaceOracle == [g |-> 0, ub |-> "fault"]

\* the statements of Value.Reset
Reset_idx(cv) == [cv EXCEPT !.idx = 0]
\* C.free(unsafe.Pointer(v.cstrings[i]))
Reset_free(cv, i) ==
    IF cv.cstrings[i] \in DOMAIN cv.heap
    THEN [cv EXCEPT !.heap = [a \in DOMAIN cv.heap \ {cv.cstrings[i]} |-> cv.heap[a]]]
    ELSE [cv EXCEPT !.dfree = TRUE]
\* a Reset that keeps the map of the strings it freed
Reset_map_kept(cv) == cv
Reset_map(cv) == [cv EXCEPT !.cstrings = EmptyMap]
Reset_buf(cv) == [cv EXCEPT !.b = [n \in 1..Len(cv.b) |-> 0]]

Running == \A th \in Threads : pcs[th].pc # "panicked"
Release == IF lock = "off" THEN "off" ELSE "free"

\* v := ValueOf(&x); e := NewEncoder(v), then the goroutines are started,
\* with or without a mutex
InitRace ==
    /\ phase = "live"
    /\ origin = RaceType
    /\ t = gotype_to_ctype(RaceType)
    /\ b = [i \in 1..Size(gotype_to_ctype(RaceType)) |-> 0]
    /\ idx = 0
    /\ cstrings = EmptyMap
    /\ heap = EmptyMap
    /\ dfree = FALSE
    /\ mem = [a \in GoPointees |-> LE(a % 256, sz_int64)]
    /\ enc = TRUE
    /\ dec = FALSE
    /\ src = NoOperand
    /\ dst = <<>>
    /\ call = Call("NewEncoder", "", 0, FALSE, "nil", "v", NoFault, FALSE, 0)
    /\ pcs = [th \in Threads |-> Idle(0)]
    /\ lock \in {"off", "free"}
    /\ frame = NoFrame

\* a goroutine calls e.Encode(&x) (the operand is of the Value's type) or
\* v.Reset(), after taking the mutex if there is one
Start(th) ==
    /\ Running
    /\ pcs[th].pc = "idle"
    /\ pcs[th].calls < MaxCalls
    /\ lock \in {"off", "free"}
    /\ lock' = IF lock = "off" THEN "off" ELSE th
    /\ \E op \in {"Encode", "Reset"} :
          pcs' = [pcs EXCEPT ![th] = [pc |-> "reset_idx", op |-> op, seen |-> {},
                                      fld |-> 0, calls |-> pcs[th].calls + 1]]
    /\ UNCHANGED <<phase, origin, t, b, idx, cstrings, heap, dfree, mem, enc, dec,
                   src, dst, call, frame>>

\* v.idx = 0
ResetIdx(th) ==
    /\ Running
    /\ pcs[th].pc = "reset_idx"
    /\ \E cv \in {Reset_idx(CV)} : Store(cv)
    /\ pcs' = [pcs EXCEPT ![th].pc = "reset_free"]
    /\ UNCHANGED <<phase, origin, t, enc, dec, src, dst, call, lock, frame>>

\* for i := range v.cstrings: one iteration, or the end of the loop
ResetFree(th) ==
    /\ Running
    /\ pcs[th].pc = "reset_free"
    /\ IF DOMAIN cstrings \ pcs[th].seen = {}
       THEN /\ pcs' = [pcs EXCEPT ![th].pc = "reset_map"]
            /\ UNCHANGED <<b, idx, cstrings, heap, dfree, mem>>
       ELSE \E i \in DOMAIN cstrings \ pcs[th].seen :
            /\ \E cv \in {Reset_free(CV, i)} : Store(cv)
            /\ pcs' = [pcs EXCEPT ![th].seen = pcs[th].seen \cup {i}]
    /\ UNCHANGED <<phase, origin, t, enc, dec, src, dst, call, lock, frame>>

\* v.cstrings = make(map[int]cstring)
ResetMap(th) ==
    /\ Running
    /\ pcs[th].pc = "reset_map"
    /\ \E cv \in {Reset_map(CV)} : Store(cv)
    /\ pcs' = [pcs EXCEPT ![th].pc = "reset_buf"]
    /\ UNCHANGED <<phase, origin, t, enc, dec, src, dst, call, lock, frame>>

\* the loop that zeroes v.b; Reset returns, and Encode goes on to encode_value
ResetBuf(th) ==
    /\ Running
    /\ pcs[th].pc = "reset_buf"
    /\ \E cv \in {Reset_buf(CV)} : Store(cv)
    /\ IF pcs[th].op = "Encode"
       THEN /\ pcs' = [pcs EXCEPT ![th].pc = "field", ![th].fld = 1]
            /\ lock' = lock
       ELSE /\ pcs' = [pcs EXCEPT ![th] = Idle(pcs[th].calls)]
            /\ lock' = Release
    /\ UNCHANGED <<phase, origin, t, enc, dec, src, dst, call, frame>>

\* encode_struct: encode_value(v, rv.Field(i)) for the next field; after the
\* last one Encode returns
EncodeField(th) ==
    /\ Running
    /\ pcs[th].pc = "field"
    /\ \E cv \in {encode_value(CV,
                               RV(GoFieldType(RaceType, pcs[th].fld),
                                  Sample(RaceType, RaceSample(th))[pcs[th].fld],
                                  TRUE),
                               RaceOracle)} :
          /\ Store(cv)
          /\ IF cv.fault # NoFault
             THEN /\ pcs' = [pcs EXCEPT ![th].pc = "panicked"]
                  /\ lock' = lock
             ELSE IF pcs[th].fld < GoNumField(RaceType)
             THEN /\ pcs' = [pcs EXCEPT ![th].fld = pcs[th].fld + 1]
                  /\ lock' = lock
             ELSE /\ pcs' = [pcs EXCEPT ![th] = Idle(pcs[th].calls)]
                  /\ lock' = Release
    /\ UNCHANGED <<phase, origin, t, enc, dec, src, dst, call, frame>>

NextRace ==
    \/ \E th \in Threads : Start(th)
    \/ \E th \in Threads : ResetIdx(th)
    \/ \E th \in Threads : ResetFree(th)
    \/ \E th \in Threads : ResetMap(th)
    \/ \E th \in Threads : ResetBuf(th)
    \/ \E th \in Threads : EncodeField(th)

SpecRace == InitRace /\ [][NextRace]_vars

(***************************************************************************)
(* The pkg/ctypes revision.  A Value is a byte slice c and its type; the   *)
(* package-level Encode makes a fresh Value for its operand and runs the   *)
(* engine on c.  Every operation takes the slice b by value, stores at     *)
(* &b[0] and reslices its own copy of b.                                   *)
(***************************************************************************)
pkg_TypeOf(ty) == gotype_to_ctype(ty)

\* the Value under construction: its bytes and the panic that ended the pass
pkg_Value(c, fault) == [c |-> c, fault |-> fault]

\* *dst = *src for dst := &b[0]; b = b[0:w] changes the operation's own b only
pkg_store(v, bytes) ==
    IF v.fault # NoFault THEN v
    ELSE IF Len(v.c) = 0 THEN pkg_Value(v.c, "index out of range")
    ELSE pkg_Value(SubSeq(bytes, 1, Min(Len(bytes), Len(v.c)))
                      \o SubSeq(v.c, Len(bytes) + 1, Len(v.c)),
                   NoFault)

RECURSIVE pkg_encode_value(_, _, _)
RECURSIVE pkg_encode_struct_from(_, _, _, _)
RECURSIVE pkg_encode_array_from(_, _, _, _)

\* op(b, p) for the operation the table holds for kind.  A raw address read
\* as a *reflect.Value, and a reflect.Value read as a SliceHeader, are
\* undefined: the call faults or returns (o.ub), the header words are
\* whatever bytes lie there (o.g).
pkg_enc_call(kind, v, p, o) ==
    IF v.fault # NoFault THEN v
    ELSE CASE kind \in {Chan, Func, Interface, Map} -> pkg_Value(v.c, "noop!")
           [] kind = String -> v
           [] kind = Slice ->
                IF p.form = "rvalue"
                THEN pkg_store(pkg_store(v, [j \in 1..sz_int |-> o.g]),
                               [j \in 1..sz_uintptr |-> o.g])
                ELSE pkg_store(pkg_store(v, p.val.Len), p.val.Data)
           [] kind \in {Struct, Array} /\ p.form # "rvalue" ->
                IF o.ub = "fault" THEN pkg_Value(v.c, "invalid memory address") ELSE v
           [] kind = Struct -> pkg_encode_struct_from(v, p, 1, o)
           [] kind = Array ->
                IF GoKind(GoElem(p.t)) \notin DOMAIN enc_op_table
                THEN pkg_Value(v.c, "index out of range")
                ELSE pkg_encode_array_from(v, p, 1, o)
           [] OTHER -> pkg_store(v, p.val)

\* the loop of encode_struct from field i on
pkg_encode_struct_from(v, rv, i, o) ==
    IF v.fault # NoFault \/ i > GoNumField(rv.t) THEN v
    ELSE pkg_encode_struct_from(
            pkg_encode_value(v, RV(GoFieldType(rv.t, i), rv.val[i], rv.addressable), o),
            rv, i + 1, o)

\* the loop of encode_array from element i on
pkg_encode_array_from(v, arr, i, o) ==
    IF v.fault # NoFault \/ i > GoLen(arr.t) THEN v
    ELSE IF ~arr.addressable THEN pkg_Value(v.c, "UnsafeAddr of unaddressable value")
    ELSE pkg_encode_array_from(
            pkg_enc_call(GoKind(GoElem(arr.t)), v,
                         AddrOf(RV(GoElem(arr.t), arr.val[i], TRUE)), o),
            arr, i + 1, o)

pkg_encode_value(v, rv, o) ==
    LET kind == GoKind(rv.t) IN
    IF v.fault # NoFault THEN v
    ELSE IF kind \notin DOMAIN enc_op_table THEN pkg_Value(v.c, "index out of range")
    ELSE IF kind \in {Array, Slice, String, Struct} THEN pkg_enc_call(kind, v, rv, o)
    ELSE IF ~rv.addressable THEN pkg_Value(v.c, "UnsafeAddr of unaddressable value")
    ELSE pkg_enc_call(kind, v, AddrOf(rv), o)

\* reflect.ValueOf(v).Elem() for the operand x: the value one pointer level
\* down (NoOperand's type for an x that is not a pointer: Elem panics)
pkg_Elem(x) ==
    IF x.ptrs = 0 THEN RV("", <<>>, FALSE)
    ELSE IF x.ptrs = 1 THEN RV(x.t, Sample(x.t, x.k), TRUE)
    ELSE RV(PtrType(x.t, x.ptrs - 1), LE(GoData(7), sz_uintptr), TRUE)

\* Encode(v) of the pkg/ctypes revision for the operand x
pkg_Encode(x) ==
    /\ \E rv \in {pkg_Elem(x)} :
       \E ct \in {IF rv.t = "" THEN NoType ELSE pkg_TypeOf(rv.t)} :
       \E o \in {u \in Oracles :
                    /\ u.ub = "fault" \/ (ct # NoType /\ Holds(rv.t, {Array}))
                    /\ u.g = 0 \/ (ct # NoType /\ Holds(rv.t, {Slice}))} :
       \E v \in {IF rv.t = ""
                 THEN pkg_Value(<<>>, "reflect: call of Elem on non-pointer")
                 ELSE IF ct = NoType THEN pkg_Value(<<>>, "not handled type")
                 ELSE pkg_encode_value(pkg_Value([n \in 1..Size(ct) |-> 0], NoFault),
                                       rv, o)} :
          IF v.fault # NoFault
          THEN \* the panic leaves the caller without a Value
               /\ phase' = "none"
               /\ origin' = ""
               /\ t' = NoType
               /\ b' = <<>>
               /\ call' = Call("pkg.Encode", IF rv.t = "" THEN x.t ELSE rv.t, x.k,
                               x.ptrs > 0, "panic", "nil", v.fault, FALSE, 0)
          ELSE /\ phase' = "live"
               /\ origin' = rv.t
               /\ t' = ct
               /\ b' = v.c
               /\ call' = Call("pkg.Encode", rv.t, x.k, TRUE, "nil", "v", NoFault,
                               FALSE, 0)
    /\ src' = x
    /\ UNCHANGED <<idx, cstrings, heap, dfree, mem, enc, dec, dst, pcs, lock, frame>>

SpecPkg == Init /\ [][\E x \in Operands : pkg_Encode(x)]_vars

(***************************************************************************)
(* follow_ptr, statement by statement.  Its operand is a chain of pointers *)
(* to a value of a non-pointer type, of which the first hops are not nil,  *)
(* or a pointer of the type P declared by `type P *P`, nil (hops = 0) or   *)
(* pointing to itself.  frame.valid tells whether rv is a valid            *)
(* reflect.Value: Elem() of a nil pointer is the zero Value, whose Kind is *)
(* Invalid.                                                                *)
(***************************************************************************)
SelfPtr == "P"
FollowOperands ==
    UNION {{[pc |-> "loop", t |-> PtrType(ty, n), hops |-> h, valid |-> TRUE] :
                ty \in BaseTypes, h \in 0..n} : n \in 0..MaxPtrDepth}
    \cup {[pc |-> "loop", t |-> SelfPtr, hops |-> h, valid |-> TRUE] : h \in {0, 1}}
\* rv.Kind()
FrameKind(rv) ==
    IF ~rv.valid THEN Invalid ELSE IF rv.t = SelfPtr THEN Ptr ELSE GoKind(rv.t)

\* rv := v
InitFollow ==
    /\ phase = "none"
    /\ origin = ""
    /\ t = NoType
    /\ b = <<>>
    /\ idx = 0
    /\ cstrings = EmptyMap
    /\ heap = EmptyMap
    /\ dfree = FALSE
    /\ mem = [a \in GoPointees |-> LE(a % 256, sz_int64)]
    /\ enc = FALSE
    /\ dec = FALSE
    /\ src = NoOperand
    /\ dst = <<>>
    /\ call = Call("follow_ptr", "", 0, FALSE, "nil", "nil", NoFault, FALSE, 0)
    /\ pcs = [th \in Threads |-> Idle(0)]
    /\ lock = "off"
    /\ frame \in FollowOperands

\* case reflect.Ptr: rv = rv.Elem()
FollowElem ==
    /\ frame.pc = "loop"
    /\ FrameKind(frame) = Ptr
    /\ frame' = IF frame.hops = 0 THEN [frame EXCEPT !.t = "", !.valid = FALSE]
                ELSE IF frame.t = SelfPtr THEN frame
                ELSE [frame EXCEPT !.t = PtrElem(frame.t), !.hops = frame.hops - 1]
    /\ UNCHANGED <<phase, origin, t, b, idx, cstrings, heap, dfree, mem, enc, dec,
                   src, dst, call, pcs, lock>>

\* default: return rv
FollowReturn ==
    /\ frame.pc = "loop"
    /\ FrameKind(frame) # Ptr
    /\ frame' = [frame EXCEPT !.pc = "returned"]
    /\ UNCHANGED <<phase, origin, t, b, idx, cstrings, heap, dfree, mem, enc, dec,
                   src, dst, call, pcs, lock>>

NextFollow ==
    \/ FollowElem
    \/ FollowReturn

\* the goroutine that called follow_ptr keeps running
SpecFollow == InitFollow /\ [][NextFollow]_vars /\ WF_vars(NextFollow)

(***************************************************************************)
(* The decode engine on a slice slot.  The Value is of a slice type, its   *)
(* buffer holds the length n and the address a of a slice as encode_slice  *)
(* writes them, and the destination is any slice, Len <= Cap.              *)
(***************************************************************************)
\* the longest slice
MaxLen == 3

InitSlice ==
    /\ phase = "live"
    /\ origin = "[]float64"
    /\ t = gotype_to_ctype("[]float64")
    /\ \E n \in 0..MaxLen : \E a \in {0, GoData(3), GoData(4)} :
          b = LE(n, sz_int) \o LE(a, sz_uintptr)
    /\ idx = 0
    /\ cstrings = EmptyMap
    /\ heap = EmptyMap
    /\ dfree = FALSE
    /\ mem = [a \in GoPointees |-> LE(a % 256, sz_int64)]
    /\ enc = TRUE
    /\ dec = TRUE
    /\ src = NoOperand
    /\ \E cap \in 0..MaxLen : \E n \in 0..cap :
          dst = SliceValue(IF cap = 0 THEN 0 ELSE GoData(3), n, cap)
    /\ call = Call("NewDecoder", "", 0, FALSE, "nil", "v", NoFault, FALSE, 0)
    /\ pcs = [th \in Threads |-> Idle(0)]
    /\ lock = "off"
    /\ frame = NoFrame

\* decode_value(cv, rv) for the addressable slice rv
DecodeSliceSlot ==
    /\ call.op = "NewDecoder"
    /\ \E r \in {decode_value(CV, RV(origin, dst, TRUE), [g |-> 0, ub |-> "fault"])} :
          /\ Store(r.cv)
          /\ dst' = r.val
          /\ call' = Call("decode_value", origin, 0, TRUE,
                          IF r.cv.fault = NoFault THEN "nil" ELSE "panic", "nil",
                          r.cv.fault, r.cv.oob, 0)
    /\ UNCHANGED <<phase, origin, t, enc, dec, src, pcs, lock, frame>>

SpecSlice == InitSlice /\ [][DecodeSliceSlot]_vars

(***************************************************************************)
(* Properties.                                                             *)
(***************************************************************************)
\* bit-for-bit equality of two values of type ty, headers of strings and
\* slices compared by what they denote: a string by its characters, a slice
\* by its Data and Len
RECURSIVE SameValue(_, _, _)
SameValue(ty, x, y) ==
    LET k == GoKind(ty) IN
    CASE k = String -> x.chars = y.chars
      [] k = Slice -> x.Len = y.Len /\ x.Data = y.Data
      [] k = Array -> \A i \in 1..GoLen(ty) : SameValue(GoElem(ty), x[i], y[i])
      [] k = Struct ->
            \A i \in 1..GoNumField(ty) : SameValue(GoFieldType(ty, i), x[i], y[i])
      [] OTHER -> x = y

\* the call about to be made is a Decode into a zero-valued destination handed
\* over by pointer, on a Decoder made right after an Encode of a value of
\* type ty returned
DecodesEncoded(ty) ==
    /\ call.op = "NewDecoder"
    /\ src # NoOperand
    /\ src.t = ty
    /\ call'.op = "Decode"
    /\ call'.rt = ty
    /\ call'.k = 0
    /\ call'.ptr

\* C1: primitive round trip.  For every primitive type, Encode of a value x,
\* then NewDecoder on the same Value, then Decode into a zero-valued
\* destination returns no error and leaves the destination equal to x bit
\* for bit.
C1_PrimitiveRoundTrip ==
    [][\A ty \in PrimTypes :
          DecodesEncoded(ty) =>
             /\ call'.err = "nil"
             /\ dst' = Sample(src.t, src.k)]_vars

\* C2: aggregate round trip.  For the struct Mixed (int, float, fixed array,
\* slice, string, pointer and nested struct fields), Encode followed by
\* NewDecoder and Decode into a zero-valued Mixed returns no error and
\* reproduces the value of every field, recursively.
C2_AggregateRoundTrip ==
    [][DecodesEncoded("Mixed") =>
          /\ call'.err = "nil"
          /\ SameValue("Mixed", dst', Sample(src.t, src.k))]_vars

\* C3: an Encode whose operand's dereferenced type differs from the origin
\* type of the bound Value's descriptor returns the TypeMismatch error and no
\* Value, and leaves the buffer, the cursor, the ownership map and the C heap
\* as they were.
C3_EncodeMismatchRejected ==
    [][(call'.op = "Encode" /\ call'.rt # t.gotype) =>
          /\ call'.err = "TypeMismatch"
          /\ call'.ret = "nil"
          /\ b' = b
          /\ idx' = idx
          /\ cstrings' = cstrings
          /\ heap' = heap]_vars

\* a mismatched Encode was rejected on a Value that holds an encoded string:
\* a moved cursor, written bytes and an owned C string
C3_Witness ==
    /\ call.op = "Encode"
    /\ call.err = "TypeMismatch"
    /\ idx > 0
    /\ cstrings # EmptyMap
    /\ \E i \in 1..Len(b) : b[i] # 0

\* C4: size invariant.  After an Encode that returned, the cursor equals the
\* Size() of the Value's descriptor.
C4_CursorIsSize ==
    (call.op = "Encode" /\ call.err = "nil") => idx = Size(t)

\* C5: text encode writes the foreign pointer.  After an Encode that
\* returned, for every offset c of the ownership map the pointer-width bytes
\* of the buffer at c are the address of the C string owned for c.
C5_TextWritesPointer ==
    (call.op = "Encode" /\ call.err = "nil") =>
        \A c \in DOMAIN cstrings :
            /\ c + sz_uintptr <= Len(b)
            /\ SubSeq(b, c + 1, c + sz_uintptr) = LE(cstrings[c], sz_uintptr)

\* C6: Reset postcondition.  A Reset (called, or run as the finalizer) leaves
\* the cursor at 0, the ownership map empty, every C string the map held
\* freed, every byte of the buffer 0, and the buffer's length and the
\* descriptor unchanged.
C6_ResetPostcondition ==
    [][call'.op \in {"Reset", "Finalize"} =>
          /\ idx' = 0
          /\ cstrings' = EmptyMap
          /\ \A a \in Range(cstrings) : a \notin DOMAIN heap'
          /\ \A i \in 1..Len(b') : b'[i] = 0
          /\ Len(b') = Len(b)
          /\ t' = t]_vars

\* a Reset of a Value that owned C strings and whose cursor had moved
C6_Witness ==
    /\ call.op = "Reset"
    /\ call.nfreed > 0
    /\ Len(b) > 0

\* C7: exactly-once release.  C.free is never handed a block that is not
\* live; between calls the live C strings are exactly the entries of the
\* ownership map, no two entries being the same block; and none is live once
\* the Value is finalized.
C7_ExactlyOnceRelease ==
    /\ ~dfree
    /\ DOMAIN heap = Range(cstrings)
    /\ Cardinality(DOMAIN cstrings) = Cardinality(Range(cstrings))
    /\ phase = "dead" => DOMAIN heap = {}

\* the finalizer freed the C strings of a Value that owned several
C7_Witness ==
    /\ phase = "dead"
    /\ call.op = "Finalize"
    /\ call.nfreed > 1

\* whether ty is of function, channel, interface or map kind, or a struct
\* with a field of such a kind at any depth of nested struct fields
RECURSIVE UnhandledKind(_)
UnhandledKind(ty) ==
    \/ GoKind(ty) \in {Func, Chan, Interface, Map}
    \/ /\ GoKind(ty) = Struct
       /\ \E i \in 1..GoNumField(ty) : UnhandledKind(GoFieldType(ty, i))

\* C8: resolver kind gate.  Resolving a type panics exactly if it is of
\* function, channel, interface or map kind or a struct with a field of such
\* a kind at any depth of nested struct fields; for every other type ValueOf
\* gets a descriptor and makes a Value of it.
C8_ResolverKindGate ==
    call.op = "ValueOf" =>
        /\ call.err = "panic" <=> UnhandledKind(call.rt)
        /\ call.err = "nil" => (t # NoType /\ phase = "live" /\ t.gotype # "")

\* the resolver refused a struct whose channel sits in a nested struct
C8_Witness ==
    /\ call.op = "ValueOf"
    /\ call.err = "panic"
    /\ call.rt = "Deep"

\* C9: the dispatch-table gap is unreachable.  No Encode or Decode on a Value
\* the resolver made a descriptor for ends in the noop operation.
C9_NoopUnreachable ==
    call.op \in {"Encode", "Decode"} => call.fault # "noop!"

\* C10: matching type is accepted.  An Encode of an operand of the type the
\* Value was made from by ValueOf is not answered with TypeMismatch.
C10_MatchingTypeAccepted ==
    (call.op = "Encode" /\ call.rt = origin) => call.err # "TypeMismatch"

\* where the slice of an operand of type ty is encoded, and that slice
SliceOffset(ty) ==
    IF ty = "Mixed" THEN sz_int32 + sz_float64 + ArrLen * sz_int16 ELSE 0
SliceOf(ty, k) ==
    IF ty = "Mixed" THEN Sample(ty, k)[4] ELSE Sample(ty, k)

\* C11: sequence encode.  After an Encode that returned, a slice encoded at
\* cursor c (the operand itself, c = 0, or the field v of Mixed) has left its
\* Len as a native int at c, immediately followed by its Data address as a
\* pointer; an operand that is itself a slice moved the cursor by
\* sz_int + sz_uintptr, filled the whole buffer with just these two words and
\* allocated nothing.
C11_SequenceEncode ==
    (call.op = "Encode" /\ call.err = "nil" /\ src.t \in {"[]float64", "Mixed"}) =>
        LET c == SliceOffset(src.t)
            slice == SliceOf(src.t, src.k)
        IN /\ SubSeq(b, c + 1, c + sz_int) = slice.Len
           /\ SubSeq(b, c + sz_int + 1, c + sz_int + sz_uintptr) = slice.Data
           /\ src.t = "[]float64" =>
                 /\ idx = sz_int + sz_uintptr
                 /\ Len(b) = sz_int + sz_uintptr
                 /\ DOMAIN heap = {}
                 /\ cstrings = EmptyMap

\* a slice of three elements was encoded
C11_Witness ==
    /\ call.op = "Encode"
    /\ call.err = "nil"
    /\ src.t = "[]float64"
    /\ src.k = 1
    /\ SubSeq(b, 1, sz_int) = LE(3, sz_int)

\* C12: Value construction.  New(nil) panics and makes no Value; New of a
\* descriptor, called by the client or by ValueOf, makes a Value of that
\* descriptor whose buffer has Size() bytes, all zero, whose cursor is 0 and
\* whose ownership map is empty.
C12_ValueConstruction ==
    /\ call.op = "New" =>
          /\ call.err = "panic" <=> call.rt = GoType(NilType)
          /\ call.err = "panic" => (phase = "none" /\ call.fault = "ctypes: New(nil)")
    /\ (call.op \in {"New", "ValueOf"} /\ call.err = "nil") =>
          /\ phase = "live"
          /\ t \in Descriptors
          /\ call.op = "New" => GoType(t) = call.rt
          /\ Len(b) = Size(t)
          /\ \A i \in 1..Len(b) : b[i] = 0
          /\ idx = 0
          /\ cstrings = EmptyMap

\* New was handed nil
C12_Witness ==
    /\ call.op = "New"
    /\ call.err = "panic"
    /\ phase = "none"

RaceImage(th) ==
    encode_value([CV EXCEPT !.b = [n \in 1..Len(b) |-> 0], !.idx = 0,
                            !.cstrings = EmptyMap, !.heap = EmptyMap],
                 RV(RaceType, Sample(RaceType, RaceSample(th)), TRUE),
                 RaceOracle).b
Quiet == \A th \in Threads : pcs[th].pc = "idle"
\* the cursor is beyond the buffer; a C string was freed twice; with no call
\* running, a live C string is owned by no entry of the map (it is never
\* freed) or the buffer is neither zero nor the image of one operand
CursorBeyond == idx > Len(b)
NeverFreed == Quiet /\ DOMAIN heap # Range(cstrings)
BufferMixed ==
    /\ Quiet
    /\ b # [n \in 1..Len(b) |-> 0]
    /\ \A th \in Threads : b # RaceImage(th)

\* C14: no built-in thread-safety.  When the goroutines serialize their calls
\* of Encode and Reset on the shared Value with a mutex, the cursor never
\* passes the end of the buffer, no C string is freed twice, no goroutine
\* panics and, between calls, every live C string is owned by the map and the
\* buffer is zero or the image of one operand; without the mutex such a state
\* is reachable (C14_Witness).
C14_SerializedIsSafe ==
    lock # "off" =>
        /\ ~CursorBeyond
        /\ ~dfree
        /\ ~NeverFreed
        /\ ~BufferMixed
        /\ Running

\* without a mutex: a C string was freed twice, and later the cursor ran
\* beyond the buffer
C14_Witness ==
    /\ lock = "off"
    /\ dfree
    /\ CursorBeyond

\* C15: primitive encode.  An Encode, through a pointer, of an operand of a
\* primitive type (bool, the integers, uintptr, the floats, the complexes,
\* unsafe.Pointer) that passed the type test returns with the operand's
\* bytes copied verbatim at [0, w) and the cursor at w, w the type's width:
\* the kind-indexed table has an operation for each of these kinds.
C15_PrimitiveEncode ==
    (/\ call.op = "Encode"
     /\ call.rt \in PrimTypes
     /\ call.ptr
     /\ call.err # "TypeMismatch") =>
        /\ call.err = "nil"
        /\ idx = GoSize(call.rt)
        /\ SubSeq(b, 1, GoSize(call.rt)) = Sample(call.rt, call.k)

\* the Value after the elements i.. of the array val of type ty were encoded
\* one after the other, each by encode_value on its own
RECURSIVE ElementsAlone(_, _, _, _, _)
ElementsAlone(cv, ty, val, i, o) ==
    IF i > GoLen(ty) THEN cv
    ELSE ElementsAlone(encode_value(cv, RV(GoElem(ty), val[i], TRUE), o),
                       ty, val, i + 1, o)

\* C16: array encode.  An Encode, through a pointer, of an operand that is a
\* fixed array of a supported element kind (int16, string, the struct Inner)
\* and that passed the type test returns, and buffer and cursor are those
\* left by encoding element 0, 1, ... back-to-back, each as the element
\* operation alone encodes it.
C16_ArrayEncode ==
    (/\ call.op = "Encode"
     /\ call.rt \in {"[N]int16", "[N]string", "[N]Inner"}
     /\ call.ptr
     /\ call.err # "TypeMismatch") =>
        /\ call.err = "nil"
        /\ \E o \in Oracles :
             \E e \in {ElementsAlone([CV EXCEPT !.b = [n \in 1..Len(b) |-> 0],
                                                !.idx = 0,
                                                !.cstrings = EmptyMap,
                                                !.heap = EmptyMap],
                                     call.rt, Sample(call.rt, call.k), 1, o)} :
                /\ e.fault = NoFault
                /\ b = e.b
                /\ idx = e.idx

\* the bytes the encoding of a value of type ty takes in the buffer
RECURSIVE EncodedWidth(_)
EncodedWidth(ty) ==
    LET kind == GoKind(ty) IN
    CASE kind = Struct ->
            SumOver(1..GoNumField(ty),
                    [i \in 1..GoNumField(ty) |-> EncodedWidth(GoFieldType(ty, i))])
      [] kind = Array -> GoLen(ty) * EncodedWidth(GoElem(ty))
      [] kind = String -> sz_uintptr
      [] kind = Slice -> sz_int + sz_uintptr
      [] OTHER -> GoSize(ty)
\* the sum of the encoded widths of the fields before field i of ty
FieldOffset(ty, i) ==
    SumOver(1..(i - 1), [j \in 1..(i - 1) |-> EncodedWidth(GoFieldType(ty, j))])
\* the Value after the fields i.. of the struct val of type ty were encoded,
\* each with the cursor put at its FieldOffset
RECURSIVE FieldsAtOffsets(_, _, _, _, _)
FieldsAtOffsets(cv, ty, val, i, o) ==
    IF i > GoNumField(ty) THEN cv
    ELSE FieldsAtOffsets(
            encode_value([cv EXCEPT !.idx = FieldOffset(ty, i)],
                         RV(GoFieldType(ty, i), val[i], TRUE), o),
            ty, val, i + 1, o)

\* C17: aggregate layout order.  After an Encode of a struct that returned,
\* the buffer is the one in which every field i, in declaration order, was
\* encoded at the offset that is the sum of the encoded widths of the fields
\* before it, whatever the fields' names, and the cursor is the sum of all the
\* fields' encoded widths.
C17_AggregateLayoutOrder ==
    (call.op = "Encode" /\ call.err = "nil" /\ GoKind(call.rt) = Struct) =>
        /\ idx = EncodedWidth(call.rt)
        /\ \E o \in Oracles :
             b = FieldsAtOffsets([CV EXCEPT !.b = [n \in 1..Len(b) |-> 0],
                                            !.idx = 0,
                                            !.cstrings = EmptyMap,
                                            !.heap = EmptyMap],
                                 call.rt, Sample(call.rt, call.k), 1, o).b

\* a struct of seven fields of different kinds and widths, and one of two
\* fields of the same name, were encoded
C17_Witness ==
    /\ call.op = "Encode"
    /\ call.err = "nil"
    /\ call.rt \in {"Mixed", "Blank2"}
    /\ call.k = 2
    /\ idx = FieldOffset(call.rt, GoNumField(call.rt) + 1)
    /\ \E n \in 1..Len(b) : b[n] # 0

\* the sum of the Size() of the descriptors of the declared fields of ty
DeclaredFieldsSize(ty) ==
    SumOver(1..GoNumField(ty),
            [i \in 1..GoNumField(ty) |-> Size(gotype_to_ctype(GoFieldType(ty, i)))])

\* C18: aggregate size.  The Size() of the descriptor ValueOf made for a
\* struct, which is the length of the Value's buffer, is the sum of the
\* Size() of the descriptors of all the struct's declared fields, one term
\* for each field, also for fields that share the name _.
C18_AggregateSize ==
    (call.op = "ValueOf" /\ call.err = "nil" /\ GoKind(call.rt) = Struct) =>
        /\ Size(t) = DeclaredFieldsSize(call.rt)
        /\ Len(b) = DeclaredFieldsSize(call.rt)

\* C19: complex resolution.  The descriptor ValueOf makes for a complex64
\* (complex128) is a struct descriptor with exactly two float32 (float64)
\* fields and the Size of two such floats, and an Encode of a value of that
\* complex type on it is not refused and, when it returns, has written the
\* real part followed by the imaginary part and moved the cursor by that Size.
C19_ComplexResolution ==
    (call.op = "Encode" /\ origin \in {"complex64", "complex128"} /\ call.rt = origin) =>
        LET float == IF origin = "complex64" THEN "float32" ELSE "float64" IN
        /\ GoKind(GoType(t)) = Struct
        /\ GoNumField(GoType(t)) = Cardinality({"re", "im"})
        /\ \A i \in 1..GoNumField(GoType(t)) : GoFieldType(GoType(t), i) = float
        /\ Size(t) = GoSize(float) + GoSize(float)
        /\ call.err # "TypeMismatch"
        /\ call.err = "nil" => (idx = Size(t) /\ b = Sample(origin, call.k))

\* C20: text decode is a zero-copy view.  A Decode into a string, on a
\* Decoder made right after an Encode of a string returned, returns with the
\* destination's Data being the address of the C string the ownership map
\* held at key 0, its Len being the length of that C string, and the cursor
\* moved by one pointer width.
C20_TextDecodeZeroCopy ==
    [][(DecodesEncoded("string") /\ 0 \in DOMAIN cstrings) =>
          /\ call'.err = "nil"
          /\ dst'.Data = LE(cstrings[0], sz_uintptr)
          /\ dst'.Len = LE(StrLen(heap[cstrings[0]], 0), sz_int)
          /\ idx' = sz_uintptr]_vars

\* C21: pointer decode mirrors pointer encode.  A Decode, through a pointer,
\* into a destination of the struct Mixed (field p is a *int64) that passed
\* the type test returns, has copied the pointer-width bytes of the buffer at
\* the field's offset into the destination's pointer field itself, and has
\* left the memory the destination's pointer refers to as it was.
C21_PointerDecodeMirrorsEncode ==
    [][(/\ call'.op = "Decode"
        /\ call'.rt = "Mixed"
        /\ call'.ptr
        /\ call'.err # "TypeMismatch") =>
          /\ call'.err = "nil"
          /\ mem' = mem
          /\ dst'[6] = SubSeq(b', FieldOffset("Mixed", 6) + 1,
                              FieldOffset("Mixed", 6) + sz_uintptr)]_vars

\* the Value as New made it: zero bytes, cursor 0, no C string
Pristine ==
    [CV EXCEPT !.b = [n \in 1..Len(b) |-> 0], !.idx = 0,
               !.cstrings = EmptyMap, !.heap = EmptyMap]

RECURSIVE TextsAt(_, _, _)
TextsAt(ty, val, c) ==
    LET kind == GoKind(ty) IN
    CASE kind = String -> {<<c, val.chars>>}
      [] kind = Struct ->
            UNION {TextsAt(GoFieldType(ty, i), val[i], c + FieldOffset(ty, i)) :
                     i \in 1..GoNumField(ty)}
      [] kind = Array ->
            UNION {TextsAt(GoElem(ty), val[i], c + (i - 1) * EncodedWidth(GoElem(ty))) :
                     i \in 1..GoLen(ty)}
      [] OTHER -> {}

C24_DecodeMismatchRejected ==
    [][(call'.op = "Decode" /\ call'.rt # t.gotype) =>
          /\ call'.err = "TypeMismatch"
          /\ call'.ret = "nil"
          /\ call'.fault = NoFault
          /\ b' = b
          /\ idx' = idx
          /\ cstrings' = cstrings
          /\ heap' = heap
          /\ mem' = mem
          /\ dst' = <<>>]_vars

\* a mismatched Decode was rejected on a Value that holds an encoded string
C24_Witness ==
    /\ call.op = "Decode"
    /\ call.err = "TypeMismatch"
    /\ call.ret = "nil"
    /\ cstrings # EmptyMap
    /\ \E i \in 1..Len(b) : b[i] # 0

\* C25: package-level Encode of the pkg/ctypes revision advances through the
\* buffer.  After an Encode of a struct that returned, every field of a
\* fixed-width kind whose slot, at the offset that is the sum of the widths
\* of the fields before it, lies within the buffer holds that field's bytes.
C25_PkgEncodeAdvances ==
    (call.op = "pkg.Encode" /\ call.err = "nil" /\ GoKind(call.rt) = Struct) =>
        \A i \in 1..GoNumField(call.rt) :
            (/\ GoKind(GoFieldType(call.rt, i)) \in FixedKinds
             /\ FieldOffset(call.rt, i) + GoSize(GoFieldType(call.rt, i)) <= Len(b)) =>
                SubSeq(b, FieldOffset(call.rt, i) + 1,
                       FieldOffset(call.rt, i) + GoSize(GoFieldType(call.rt, i)))
                  = Sample(call.rt, call.k)[i]

\* C26: buffer bounds safety.  No Encode or Decode that passed the type test
\* reads or writes, through the cursor, a byte outside the Value's buffer,
\* whose length is the Size() of the descriptor; the cursor never passes the
\* end of the buffer.
C26_BufferBoundsSafety ==
    (call.op \in {"Encode", "Decode"} /\ call.err # "TypeMismatch") =>
        /\ Len(b) = Size(t)
        /\ ~call.oob
        /\ idx <= Len(b)

\* C27: pointer following terminates.  For every operand, a chain with a nil
\* pointer in it and a pointer that points to itself included, follow_ptr
\* eventually returns, and what it returns is a valid value of a non-pointer
\* kind.
C27_FollowPtrTerminates ==
    <>(/\ frame.pc = "returned"
       /\ frame.valid
       /\ FrameKind(frame) # Ptr)

C29_ResetIdempotent ==
    [][(call.op = "Reset" /\ call'.op \in {"Reset", "Finalize"}) =>
          /\ b' = b
          /\ idx' = idx
          /\ cstrings' = cstrings
          /\ heap' = heap
          /\ call'.nfreed = 0
          /\ ~dfree']_vars

\* the finalizer ran on a Value of a string that an Encoder and a Decoder
\* were bound to and that owns nothing any more
C29_Witness ==
    /\ call.op = "Finalize"
    /\ call.nfreed = 0
    /\ origin = "string"
    /\ enc
    /\ dec
    /\ ~dfree
    /\ heap = EmptyMap

====
